---- MODULE Spec2Model ----
(***************************************************************************)
(* GiveawayDraw (src/src/components/GiveawayDraw.tsx): a React component   *)
(* holding a textarea text, the remaining pool, the original snapshot, the *)
(* winners history, the current winner and a drawing flag.  Each click     *)
(* handler is one action, enabled when its control is rendered and not     *)
(* disabled; the setTimeout callback of drawWinner is an action of its     *)
(* own, running on the values its closure captured.                        *)
(*                                                                         *)
(* A text is a sequence of one-character strings; a Participant is         *)
(* [number, name, id]; a Winner adds position.  drawnAt (new Date()) is    *)
(* written once and read by no transition, it is left out of the record.   *)
(***************************************************************************)
EXTENDS Integers, Sequences, FiniteSets, TLC

VARIABLES participantText, participants, originalParticipants, winners,
          currentWinner, isDrawing, timers, lastEvent

vars == <<participantText, participants, originalParticipants, winners,
          currentWinner, isDrawing, timers, lastEvent>>

(* ---------------------------- bounds ----------------------------------- *)

\* the texts typed into the textarea have at most MaxLines lines
MaxLines == 2

(* ------------------------- characters ---------------------------------- *)

\* what \s matches among the characters of the typed texts
IsSpace(c) == c \in {" ", "\n"}

\* what \d matches
IsDigit(c) == c \in {"0", "1", "2", "3", "4", "5", "6", "7", "8", "9"}

DigitValue(c) ==
    CASE c = "0" -> 0 [] c = "1" -> 1 [] c = "2" -> 2 [] c = "3" -> 3
      [] c = "4" -> 4 [] c = "5" -> 5 [] c = "6" -> 6 [] c = "7" -> 7
      [] c = "8" -> 8 [] c = "9" -> 9

DigitChar(d) == <<"0", "1", "2", "3", "4", "5", "6", "7", "8", "9">>[d + 1]

\* String.prototype.toLowerCase on one character
LowerChar(c) ==
    CASE c = "A" -> "a" [] c = "B" -> "b" [] c = "C" -> "c" [] c = "X" -> "x"
      [] OTHER -> c

(* ------------------------- string helpers ------------------------------ *)

RECURSIVE trimStart(_)
trimStart(s) ==
    IF s = <<>> THEN s
    ELSE IF IsSpace(Head(s)) THEN trimStart(Tail(s)) ELSE s

RECURSIVE trimEnd(_)
trimEnd(s) ==
    IF s = <<>> THEN s
    ELSE IF IsSpace(s[Len(s)]) THEN trimEnd(SubSeq(s, 1, Len(s) - 1)) ELSE s

\* String.prototype.trim
trim(s) == trimEnd(trimStart(s))

\* String.prototype.split('\n'): cur is the piece being read
RECURSIVE splitFrom(_, _)
splitFrom(s, cur) ==
    IF s = <<>> THEN <<cur>>
    ELSE IF Head(s) = "\n" THEN <<cur>> \o splitFrom(Tail(s), <<>>)
    ELSE splitFrom(Tail(s), Append(cur, Head(s)))

split(s) == splitFrom(s, <<>>)

\* length of the longest prefix of digits: what (\d+) takes
RECURSIVE digitRun(_)
digitRun(s) ==
    IF s = <<>> \/ ~IsDigit(Head(s)) THEN 0 ELSE 1 + digitRun(Tail(s))

\* parseInt(numberStr, 10) on a string of digits
RECURSIVE parseInt(_)
parseInt(s) ==
    IF s = <<>> THEN 0
    ELSE 10 * parseInt(SubSeq(s, 1, Len(s) - 1)) + DigitValue(s[Len(s)])

\* the decimal digits `${number}` prints
RECURSIVE numberToString(_)
numberToString(n) ==
    IF n < 10 THEN <<DigitChar(n)>>
    ELSE numberToString(n \div 10) \o <<DigitChar(n % 10)>>

\* name.replace(/\s+/g, '-'): every run of whitespace becomes one hyphen
RECURSIVE replaceSpaces(_)
replaceSpaces(s) ==
    IF s = <<>> THEN s
    ELSE IF IsSpace(Head(s)) THEN <<"-">> \o replaceSpaces(trimStart(s))
    ELSE <<Head(s)>> \o replaceSpaces(Tail(s))

toLowerCase(s) == [i \in 1..Len(s) |-> LowerChar(s[i])]

(* ------------------------------ parser --------------------------------- *)

NoMatch == [ok |-> FALSE, numberStr |-> <<>>, name |-> <<>>]

\* line.trim().match(/^(\d+)\s*-\s*(.+)$/): the digits are taken greedily,
\* the second \s* gives characters back only if (.+) would be left empty
match(line) ==
    LET t == trim(line)
        n == digitRun(t)
        afterNumber == trimStart(SubSeq(t, n + 1, Len(t)))
    IN  IF n = 0 \/ afterNumber = <<>> \/ Head(afterNumber) # "-" THEN NoMatch
        ELSE LET rest == Tail(afterNumber)
             IN  IF rest = <<>> THEN NoMatch
                 ELSE [ok |-> TRUE,
                       numberStr |-> SubSeq(t, 1, n),
                       name |-> IF trimStart(rest) # <<>> THEN trimStart(rest)
                                ELSE <<rest[Len(rest)]>>]

\* the Participant pushed for one matched line
Participant(numberStr, name) ==
    LET number == parseInt(numberStr)
    IN  [number |-> number,
         name |-> trim(name),
         id |-> numberToString(number) \o <<"-">>
                \o toLowerCase(replaceSpaces(trim(name)))]

\* parseLines leaving the loop at the first line that is no entry
RECURSIVE parseLinesStoppingAtMismatch(_)
parseLinesStoppingAtMismatch(lines) ==
    IF lines = <<>> THEN <<>>
    ELSE LET m == match(Head(lines))
         IN  IF m.ok /\ trim(m.name) # <<>>
             THEN <<Participant(m.numberStr, m.name)>>
                  \o parseLinesStoppingAtMismatch(Tail(lines))
             ELSE <<>>

RECURSIVE parseLines(_)
parseLines(lines) ==
    IF lines = <<>> THEN <<>>
    ELSE LET m == match(Head(lines))
         IN  IF m.ok /\ trim(m.name) # <<>>
             THEN <<Participant(m.numberStr, m.name)>> \o parseLines(Tail(lines))
             ELSE parseLines(Tail(lines))

parseParticipants(text) ==
    parseLines(SelectSeq(split(trim(text)), LAMBDA line : trim(line) # <<>>))

(* --------------------------- typed texts ------------------------------- *)

\* the lines a user types: two plain entries, an entry whose number is
\* written with a leading zero, and a line that is no entry
Lines ==
    { <<"1", " ", "-", " ", "a">>,
      <<"2", " ", "-", " ", "B", " ", "c">>,
      <<"0", "1", " ", "-", "b">>,
      <<"x", " ", "-", " ", "a">> }

RECURSIVE join(_)
join(lines) ==
    IF lines = <<>> THEN <<>>
    ELSE IF Len(lines) = 1 THEN Head(lines)
    ELSE Head(lines) \o <<"\n">> \o join(Tail(lines))

\* every text of at most MaxLines of these lines, the empty text included
Texts ==
    { join(ls) : ls \in UNION { [1..n -> Lines] : n \in 0..MaxLines } }

(* --------------------------- the component ----------------------------- *)

\* currentWinner is <<>> for null and <<w>> for the Winner w

Init ==
    /\ participantText = <<>>
    /\ participants = <<>>
    /\ originalParticipants = <<>>
    /\ winners = <<>>
    /\ currentWinner = <<>>
    /\ isDrawing = FALSE
    /\ timers = <<>>
    /\ lastEvent = "init"

\* {participants.length === 0 && (<Card> textarea, submit, clearAll)}
InputCardRendered == Len(participants) = 0

\* {participants.length > 0 && (reset, clearAll, draw, current winner)}
DrawSectionRendered == Len(participants) > 0

\* submit: disabled={!participantText.trim()}
SubmitEnabled == trim(participantText) # <<>>

\* DrawEnabled with the isDrawing test forgotten
DrawEnabledWhileDrawing == ~(Len(participants) = 0)

\* draw: disabled={isDrawing || participants.length === 0}
DrawEnabled == ~(isDrawing \/ Len(participants) = 0)

\* ResetEnabled with the isDrawing test forgotten
ResetEnabledWhileDrawing == ~(Len(winners) = 0)

\* reset: disabled={isDrawing || winners.length === 0}
ResetEnabled == ~(isDrawing \/ Len(winners) = 0)

\* onChange={(e) => setParticipantText(e.target.value)}
setParticipantText(text) ==
    /\ InputCardRendered
    /\ participantText' = text
    /\ lastEvent' = "edit"
    /\ UNCHANGED <<participants, originalParticipants, winners, currentWinner,
                   isDrawing, timers>>

\* numbers.indexOf(num)
indexOf(numbers, num) ==
    IF \E i \in 1..Len(numbers) : numbers[i] = num
    THEN (CHOOSE i \in 1..Len(numbers) :
            /\ numbers[i] = num
            /\ \A j \in 1..(i - 1) : numbers[j] # num) - 1
    ELSE -1

\* numbers.filter((num, index) => numbers.indexOf(num) !== index)
RECURSIVE filterDuplicates(_, _)
filterDuplicates(numbers, index) ==
    IF index >= Len(numbers) THEN <<>>
    ELSE (IF indexOf(numbers, numbers[index + 1]) # index
          THEN <<numbers[index + 1]>> ELSE <<>>)
         \o filterDuplicates(numbers, index + 1)

\* duplicates comparing the ids of the entries instead of their numbers
duplicatesById(parsed) ==
    filterDuplicates([i \in 1..Len(parsed) |-> parsed[i].id], 0)

duplicates(parsed) ==
    filterDuplicates([i \in 1..Len(parsed) |-> parsed[i].number], 0)

\* rejectLoad with the history wiped before the validation returns
rejectLoadClearingHistory ==
    /\ winners' = <<>>
    /\ currentWinner' = <<>>
    /\ UNCHANGED <<participantText, participants, originalParticipants,
                   isDrawing, timers>>

\* the two early returns: a toast and nothing else
rejectLoad ==
    UNCHANGED <<participantText, participants, originalParticipants, winners,
                currentWinner, isDrawing, timers>>

\* acceptLoad with setWinners([]) forgotten
acceptLoadKeepingWinners(parsed) ==
    /\ participants' = parsed
    /\ originalParticipants' = parsed
    /\ currentWinner' = <<>>
    /\ UNCHANGED <<participantText, winners, isDrawing, timers>>

\* the four setters of a successful load
acceptLoad(parsed) ==
    /\ participants' = parsed
    /\ originalParticipants' = parsed
    /\ winners' = <<>>
    /\ currentWinner' = <<>>
    /\ UNCHANGED <<participantText, isDrawing, timers>>

handleParticipantsSubmit ==
    /\ InputCardRendered
    /\ SubmitEnabled
    /\ LET parsed == parseParticipants(participantText)
       IN  IF Len(parsed) = 0
           THEN lastEvent' = "load_invalid" /\ rejectLoad
           ELSE IF Len(duplicates(parsed)) > 0
           THEN lastEvent' = "load_duplicate" /\ rejectLoad
           ELSE lastEvent' = "load_ok" /\ acceptLoad(parsed)

\* drawWinnerBody with the test of the empty pool forgotten
drawWinnerBodyWithoutEmptyTest ==
    /\ isDrawing' = TRUE
    /\ currentWinner' = <<>>
    /\ timers' = Append(timers, [participants |-> participants,
                                 winners |-> winners])
    /\ lastEvent' = "draw"
    /\ UNCHANGED <<participantText, participants, originalParticipants, winners>>

\* drawWinnerBody with setCurrentWinner(null) forgotten
drawWinnerBodyKeepingCurrentWinner ==
    IF Len(participants) = 0
    THEN /\ lastEvent' = "draw_empty"
         /\ UNCHANGED <<participantText, participants, originalParticipants,
                        winners, currentWinner, isDrawing, timers>>
    ELSE /\ isDrawing' = TRUE
         /\ timers' = Append(timers, [participants |-> participants,
                                      winners |-> winners])
         /\ lastEvent' = "draw"
         /\ UNCHANGED <<participantText, participants, originalParticipants,
                        winners, currentWinner>>

\* the part of drawWinner that runs at the call: the "No Participants" toast
\* on an empty pool, else the setTimeout callback is queued with the
\* participants and winners of this render
drawWinnerBody ==
    IF Len(participants) = 0
    THEN /\ lastEvent' = "draw_empty"
         /\ UNCHANGED <<participantText, participants, originalParticipants,
                        winners, currentWinner, isDrawing, timers>>
    ELSE /\ isDrawing' = TRUE
         /\ currentWinner' = <<>>
         /\ timers' = Append(timers, [participants |-> participants,
                                      winners |-> winners])
         /\ lastEvent' = "draw"
         /\ UNCHANGED <<participantText, participants, originalParticipants,
                        winners>>

\* a click on the draw button
drawWinner ==
    /\ DrawSectionRendered
    /\ DrawEnabled
    /\ drawWinnerBody

\* drawWinner called with an empty pool, which no control does
drawWinnerOnEmptyPool ==
    /\ Len(participants) = 0
    /\ drawWinnerBody

\* prev.filter((_, index) => index !== randomIndex)
filterIndex(prev, randomIndex) ==
    IF randomIndex + 1 <= Len(prev)
    THEN SubSeq(prev, 1, randomIndex) \o SubSeq(prev, randomIndex + 2, Len(prev))
    ELSE prev

\* RandomIndices of Math.floor(Math.random() * (length - 1))
RandomIndicesWithoutLast(length) == 0..(length - 2)

\* Math.floor(Math.random() * length): Math.random() is in [0, 1)
RandomIndices(length) == 0..(length - 1)

\* drawWinnerTimeout removing the winner from the snapshot as well, as if
\* pool and snapshot were one array
drawWinnerTimeoutShrinkingSnapshot ==
    /\ timers # <<>>
    /\ LET closure == Head(timers)
       IN  \E randomIndex \in RandomIndices(Len(closure.participants)) :
             LET selectedParticipant == closure.participants[randomIndex + 1]
                 winner == [number |-> selectedParticipant.number,
                            name |-> selectedParticipant.name,
                            id |-> selectedParticipant.id,
                            position |-> Len(closure.winners) + 1]
             IN  /\ currentWinner' = <<winner>>
                 /\ winners' = Append(winners, winner)
                 /\ participants' = filterIndex(participants, randomIndex)
                 /\ originalParticipants'
                      = filterIndex(originalParticipants, randomIndex)
                 /\ isDrawing' = FALSE
    /\ timers' = Tail(timers)
    /\ lastEvent' = "reveal"
    /\ UNCHANGED participantText

\* the callback of setTimeout: closure holds the participants and winners
\* captured at the click, the functional setters read the current state
drawWinnerTimeout ==
    /\ timers # <<>>
    /\ LET closure == Head(timers)
       IN  \E randomIndex \in RandomIndices(Len(closure.participants)) :
             LET selectedParticipant == closure.participants[randomIndex + 1]
                 winner == [number |-> selectedParticipant.number,
                            name |-> selectedParticipant.name,
                            id |-> selectedParticipant.id,
                            position |-> Len(closure.winners) + 1]
             IN  /\ currentWinner' = <<winner>>
                 /\ winners' = Append(winners, winner)
                 /\ participants' = filterIndex(participants, randomIndex)
                 /\ isDrawing' = FALSE
    /\ timers' = Tail(timers)
    /\ lastEvent' = "reveal"
    /\ UNCHANGED <<participantText, originalParticipants>>

\* resetDraw with setCurrentWinner(null) forgotten
resetDrawKeepingCurrentWinner ==
    /\ DrawSectionRendered
    /\ ResetEnabled
    /\ participants' = originalParticipants
    /\ winners' = <<>>
    /\ lastEvent' = "reset"
    /\ UNCHANGED <<participantText, originalParticipants, currentWinner,
                   isDrawing, timers>>

resetDraw ==
    /\ DrawSectionRendered
    /\ ResetEnabled
    /\ participants' = originalParticipants
    /\ winners' = <<>>
    /\ currentWinner' = <<>>
    /\ lastEvent' = "reset"
    /\ UNCHANGED <<participantText, originalParticipants, isDrawing, timers>>

\* clearAll cancelling the pending reveal and leaving the drawing flag set
clearAllCancellingTimer ==
    /\ participantText' = <<>>
    /\ participants' = <<>>
    /\ originalParticipants' = <<>>
    /\ winners' = <<>>
    /\ currentWinner' = <<>>
    /\ timers' = <<>>
    /\ lastEvent' = "clear"
    /\ UNCHANGED isDrawing

\* rendered in the input card and in the draw section, never disabled
clearAll ==
    /\ participantText' = <<>>
    /\ participants' = <<>>
    /\ originalParticipants' = <<>>
    /\ winners' = <<>>
    /\ currentWinner' = <<>>
    /\ lastEvent' = "clear"
    /\ UNCHANGED <<isDrawing, timers>>

Next ==
    \/ \E text \in Texts : setParticipantText(text)
    \/ handleParticipantsSubmit
    \/ drawWinner
    \/ drawWinnerTimeout
    \/ resetDraw
    \/ clearAll

Spec == Init /\ [][Next]_vars

\* a queued setTimeout callback is run by the event loop
SpecFair == Spec /\ WF_vars(drawWinnerTimeout)

\* the component with drawWinner also called on an empty pool
NextWithCalls ==
    \/ Next
    \/ drawWinnerOnEmptyPool

SpecWithCalls == Init /\ [][NextWithCalls]_vars

(* ------------------------ the parser alone ----------------------------- *)

\* a text has at most MaxTypedLines lines in the specification of the parser
MaxTypedLines == 2

\* a typed line by its parts: what stands for the number, the dash or its
\* absence, what follows, and the whitespace put around each part
LineShapes ==
    [ digits : { <<"7">>, <<"0", "1">>, <<"x">>, <<>> },
      dash : { <<"-">>, <<>> },
      name : { <<"B", " ", "c">>, <<>> },
      pad : { <<" ">>, <<>> } ]

lineOf(shape) ==
    shape.pad \o shape.digits \o shape.pad \o shape.dash \o shape.pad
    \o shape.name \o shape.pad

TypedShapes == UNION { [1..n -> LineShapes] : n \in 0..MaxTypedLines }

textOf(shapes) == join([i \in 1..Len(shapes) |-> lineOf(shapes[i])])

\* the text is typed; lastEvent records the lines it was typed from and
\* whether parseParticipants has run on it
ParseInit ==
    /\ \E shapes \in TypedShapes :
          /\ participantText = textOf(shapes)
          /\ lastEvent = [typed |-> shapes, parsed |-> FALSE]
    /\ participants = <<>>
    /\ originalParticipants = <<>>
    /\ winners = <<>>
    /\ currentWinner = <<>>
    /\ isDrawing = FALSE
    /\ timers = <<>>

\* const parsed = parseParticipants(participantText), the result kept in
\* participants
callParseParticipants ==
    /\ ~lastEvent.parsed
    /\ participants' = parseParticipants(participantText)
    /\ lastEvent' = [lastEvent EXCEPT !.parsed = TRUE]
    /\ UNCHANGED <<participantText, originalParticipants, winners,
                   currentWinner, isDrawing, timers>>

ParseNext == callParseParticipants

SpecParse == ParseInit /\ [][ParseNext]_vars

(* ------------------------------ claims --------------------------------- *)

Range(seq) == { seq[i] : i \in 1..Len(seq) }

\* the Participant a Winner extends
ParticipantOf(w) == [number |-> w.number, name |-> w.name, id |-> w.id]

DistinctNumbers(seq) ==
    \A i, j \in 1..Len(seq) : seq[i].number = seq[j].number => i = j

\* C1: in every reachable state the remaining pool is a subset of the
\* original snapshot, the participants of the winners history are exactly
\* the snapshot entries missing from the pool, and
\* |remaining| + |winners| = |original|.
\* Violated: Clear during the drawing delay leaves the timer pending, and its
\* reveal appends a winner to the history of the emptied session.
PoolInvariant ==
    /\ Range(participants) \subseteq Range(originalParticipants)
    /\ { ParticipantOf(winners[i]) : i \in 1..Len(winners) }
         = Range(originalParticipants) \ Range(participants)
    /\ Len(participants) + Len(winners) = Len(originalParticipants)

\* C2: every reveal removes exactly one entry from the remaining pool and
\* appends exactly one winner, and the winner appended is the participant
\* removed.
\* Violated: the reveal picks the winner from the pool captured at the click
\* and removes by index from the pool of the moment.
RevealMovesOne ==
    [][Len(timers') < Len(timers) =>
          \E i \in 1..Len(participants) :
              /\ participants' = filterIndex(participants, i - 1)
              /\ Len(winners') = Len(winners) + 1
              /\ SubSeq(winners', 1, Len(winners)) = winners
              /\ ParticipantOf(winners'[Len(winners')]) = participants[i]]_vars

\* C3: in every reachable state the k-th entry of the winners history has
\* position k.
\* Violated: position is winners.length + 1 of the render of the click, the
\* history may have been emptied since.
PositionsSequential ==
    \A k \in 1..Len(winners) : winners[k].position = k

\* C4: while isDrawing is set no draw is initiated (no timer is queued), and
\* at most one reveal timer is pending at any time, exactly when isDrawing is
\* set; also across a Clear and a new load during the delay.
OneTimerPending ==
    /\ [](Len(timers) <= 1 /\ (isDrawing <=> Len(timers) = 1))
    /\ [][isDrawing => Len(timers') <= Len(timers)]_vars

\* C4 witness: a draw still pending after a Clear and a successful load
PendingAcrossClearAndLoad ==
    /\ lastEvent = "load_ok"
    /\ isDrawing
    /\ Len(timers) = 1
    /\ Head(timers).participants # participants

\* C5: right after Clear the component is in its initial empty state: text,
\* pool, snapshot, winners and current winner empty, not drawing, no reveal
\* pending.
\* Violated: clearAll neither resets isDrawing nor cancels the timer.
ClearReturnsToInitial ==
    lastEvent = "clear" =>
        /\ participantText = <<>>
        /\ participants = <<>>
        /\ originalParticipants = <<>>
        /\ winners = <<>>
        /\ currentWinner = <<>>
        /\ ~isDrawing
        /\ timers = <<>>

\* C6: a Reset makes the remaining pool the original snapshot, empties the
\* winners history and the current winner, and leaves snapshot and text
\* unchanged.
ResetRestoresSnapshot ==
    [][lastEvent' = "reset" =>
          /\ participants' = originalParticipants
          /\ winners' = <<>>
          /\ currentWinner' = <<>>
          /\ UNCHANGED <<originalParticipants, participantText>>]_vars

\* C6 witness: a Reset taken after a draw from a pool of two
ResetAfterDraws ==
    /\ lastEvent = "reset"
    /\ Len(participants) = 2
    /\ participants = originalParticipants
    /\ winners = <<>>

\* C7: Reset can be taken in every loaded state with at least one winner
\* and no draw in progress, the exhausted state (pool empty) included.
\* Violated: the reset button is in the draw section, which is not rendered
\* when the pool is empty.
ResetAvailable ==
    (originalParticipants # <<>> /\ winners # <<>> /\ ~isDrawing)
        => (DrawSectionRendered /\ ResetEnabled)

\* C8: a rejected load (nothing parsed, or a duplicate number) changes
\* nothing of text, pool, snapshot, winners, current winner, drawing flag
\* and pending timers.
RejectedLoadKeepsState ==
    [][lastEvent' \in {"load_invalid", "load_duplicate"} =>
          UNCHANGED <<participantText, participants, originalParticipants,
                      winners, currentWinner, isDrawing, timers>>]_vars

\* C8 witness: a load rejected for a duplicate number while a history exists
RejectedWithHistory ==
    /\ lastEvent = "load_duplicate"
    /\ winners # <<>>
    /\ originalParticipants # <<>>

\* C9: a load succeeds only on pairwise distinct numbers, and in every
\* reachable state the numbers of the snapshot, and those of the pool, are
\* pairwise distinct.
NumbersDistinct ==
    /\ lastEvent = "load_ok" => DistinctNumbers(parseParticipants(participantText))
    /\ DistinctNumbers(originalParticipants)
    /\ DistinctNumbers(participants)

\* C9 witness: a pool of two loaded from a text of two entries
LoadedTwo ==
    /\ lastEvent = "load_ok"
    /\ Len(originalParticipants) = 2
    /\ participants = originalParticipants

\* C10: a successful load makes the parsed list both pool and snapshot and
\* leaves the winners history and the current winner empty.
LoadInstallsParsed ==
    [][lastEvent' = "load_ok" =>
          /\ participants' = parseParticipants(participantText)
          /\ originalParticipants' = participants'
          /\ Len(participants') > 0
          /\ winners' = <<>>
          /\ currentWinner' = <<>>]_vars

\* C10 witness: a load of two entries made while the draw of a cleared
\* session is still pending
LoadedOverOldSession ==
    /\ lastEvent = "load_ok"
    /\ Len(participants) = 2
    /\ participants = originalParticipants
    /\ winners = <<>>
    /\ currentWinner = <<>>
    /\ isDrawing

\* C11: with n participants loaded, the winners history counts the draws
\* completed since the load (load, reset and clear empty it): after n of them
\* the pool is empty and the history holds each of the n participants once,
\* after fewer the pool is not empty.
\* Violated: the reveal of a draw started before a Clear lands in the newly
\* loaded session and is counted there with a participant of the old one.
DrawsExhaustPool ==
    originalParticipants # <<>> =>
        /\ Len(winners) < Len(originalParticipants) => participants # <<>>
        /\ Len(winners) = Len(originalParticipants) =>
              /\ participants = <<>>
              /\ { ParticipantOf(winners[i]) : i \in 1..Len(winners) }
                   = Range(originalParticipants)

\* a line shape is an entry when its number part is digits, the dash is there
\* and something follows the dash
IsEntry(shape) ==
    /\ shape.digits \in { <<"7">>, <<"0", "1">> }
    /\ shape.dash = <<"-">>
    /\ shape.name # <<>>

\* the number the digits of an entry write
WrittenNumber(digits) == IF digits = <<"7">> THEN 7 ELSE 1

RECURSIVE ExpectedEntries(_)
ExpectedEntries(shapes) ==
    IF shapes = <<>> THEN <<>>
    ELSE (IF IsEntry(Head(shapes))
          THEN <<[number |-> WrittenNumber(Head(shapes).digits),
                  name |-> Head(shapes).name]>>
          ELSE <<>>)
         \o ExpectedEntries(Tail(shapes))

\* C12: the parser returns one participant, with the number and the name
\* written, for every line of the form <integer> - <text>, in the order of
\* the lines; blank lines and other lines are dropped and change nothing of
\* the result for the other lines.
ParserKeepsMatchingLines ==
    lastEvent.parsed =>
        [i \in 1..Len(participants) |->
            [number |-> participants[i].number, name |-> participants[i].name]]
        = ExpectedEntries(lastEvent.typed)

\* C12 witness: an entry parsed from a text whose first line is no entry
ParsedAfterDroppedLine ==
    /\ lastEvent.parsed
    /\ Len(lastEvent.typed) = 2
    /\ ~IsEntry(lastEvent.typed[1])
    /\ lineOf(lastEvent.typed[1]) # <<>>
    /\ IsEntry(lastEvent.typed[2])
    /\ Len(participants) = 1
    /\ participants[1].number = 1

\* C13: the draw button is never enabled while the pool is empty, no step
\* taken from an empty pool queues a reveal or enters the drawing state, and
\* drawWinner called on an empty pool only signals "No Participants": text,
\* pool, snapshot, winners, current winner, drawing flag and timers stay.
DrawOnEmptyPoolIsNoOp ==
    /\ [](Len(participants) = 0 => ~(DrawSectionRendered /\ DrawEnabled))
    /\ [][Len(participants) = 0 =>
             /\ Len(timers') <= Len(timers)
             /\ isDrawing' => isDrawing]_vars
    /\ [][lastEvent' = "draw_empty" =>
             UNCHANGED <<participantText, participants, originalParticipants,
                         winners, currentWinner, isDrawing, timers>>]_vars

\* C13 witness: drawWinner called in the exhausted state
DrawCalledOnExhaustedPool ==
    /\ lastEvent = "draw_empty"
    /\ participants = <<>>
    /\ originalParticipants # <<>>
    /\ Len(winners) = Len(originalParticipants)
    /\ ~isDrawing

\* C14: a text edit, the initiation of a draw, a reveal, a reset and a
\* rejected load leave the original snapshot as it is; it changes only by a
\* successful load, which replaces it by the parsed list, or by a clear,
\* which empties it.
SnapshotChangesOnlyByLoadOrClear ==
    [][/\ lastEvent' \in {"edit", "draw", "reveal", "reset", "load_invalid",
                          "load_duplicate"}
            => UNCHANGED originalParticipants
       /\ originalParticipants' # originalParticipants
            => \/ /\ lastEvent' = "load_ok"
                  /\ originalParticipants' = parseParticipants(participantText)
               \/ /\ lastEvent' = "clear"
                  /\ originalParticipants' = <<>>]_vars

\* C14 witness: a reveal has shrunk the pool, the snapshot of two is whole
SnapshotWholeAfterReveal ==
    /\ lastEvent = "reveal"
    /\ Len(originalParticipants) = 2
    /\ Len(participants) = 1
    /\ Len(winners) = 1

\* C15: the reset cannot be taken while the winners history is empty or the
\* drawing flag is set, and every reset is taken with at least one winner in
\* the history, the flag down and no reveal pending.
ResetOnlyWithWinnersAndIdle ==
    /\ []((winners = <<>> \/ isDrawing) => ~ENABLED resetDraw)
    /\ [][lastEvent' = "reset" =>
             /\ winners # <<>>
             /\ ~isDrawing
             /\ timers = <<>>]_vars

\* C15 witness: a draw in progress with a winner in the history and the draw
\* section rendered, the reset button disabled
ResetDisabledDuringDraw ==
    /\ isDrawing
    /\ timers # <<>>
    /\ winners # <<>>
    /\ DrawSectionRendered
    /\ ~ENABLED resetDraw

\* C16: given that a queued timer fires, whenever isDrawing is set it is
\* eventually cleared again, and the step that clears it is the reveal, which
\* appends one winner, the current winner, to the history; this whatever
\* clear, edit or load happens during the delay.
EveryDrawReveals ==
    /\ isDrawing ~> ~isDrawing
    /\ [][isDrawing /\ ~isDrawing' =>
             /\ lastEvent' = "reveal"
             /\ currentWinner' # <<>>
             /\ winners' = Append(winners, currentWinner'[1])]_vars

\* C16 witness: the reveal of a draw whose session was cleared and replaced
\* by a new load during the delay
RevealedAfterClearAndLoad ==
    /\ lastEvent = "reveal"
    /\ ~isDrawing
    /\ Len(winners) = 1
    /\ Len(originalParticipants) = 2
    /\ ParticipantOf(winners[1]) \notin Range(originalParticipants)

\* C17: while a reveal is pending for a pool of n participants captured at
\* the click, n > 0 and for each index 0..n-1 the reveal can select that
\* index (the participant at it becomes the current winner, the entry at it
\* leaves the pool), and the reveal can select nothing else: its winner is
\* always one of the n participants.
AnyPooledParticipantCanWin ==
    timers # <<>> =>
        LET pool == Head(timers).participants
        IN  /\ Len(pool) > 0
            /\ \A i \in 1..Len(pool) :
                  ENABLED (/\ drawWinnerTimeout
                           /\ ParticipantOf(currentWinner'[1]) = pool[i]
                           /\ participants' = filterIndex(participants, i - 1))
            /\ ~ENABLED (/\ drawWinnerTimeout
                         /\ ParticipantOf(currentWinner'[1]) \notin Range(pool))

\* C17 witness: a reveal pending for a pool of two
RevealPendingForTwo ==
    /\ timers # <<>>
    /\ isDrawing
    /\ Len(Head(timers).participants) = 2
    /\ participants = Head(timers).participants

\* C18: in every reachable state the numbers (and so the ids) of the winners
\* history are pairwise distinct and no participant is both in the remaining
\* pool and in the history.
\* Violated: the reveal of a draw started before a Clear takes its winner
\* from the old pool and removes by index from the newly loaded one.
NoDoubleWinner ==
    /\ DistinctNumbers(winners)
    /\ \A i, j \in 1..Len(winners) : winners[i].id = winners[j].id => i = j
    /\ \A i \in 1..Len(winners) : ParticipantOf(winners[i]) \notin Range(participants)

\* C19: whenever the current winner is set, no draw is in progress and it is
\* the last entry of the winners history; while a draw is in progress the
\* current winner is empty.
CurrentWinnerIsLastWinner ==
    /\ currentWinner # <<>> =>
          /\ ~isDrawing
          /\ winners # <<>>
          /\ winners[Len(winners)] = currentWinner[1]
    /\ isDrawing => currentWinner = <<>>

\* C19 witness: the second winner of a session revealed and shown
SecondWinnerShown ==
    /\ lastEvent = "reveal"
    /\ currentWinner # <<>>
    /\ Len(winners) = 2
    /\ currentWinner[1] = winners[2]

====
